---- MODULE Spec2Model ----
(***************************************************************************)
(* Model of mloptimizer/genoptimizer.py: the Param descriptor, the         *)
(* BaseOptimizer (parameter-table resolution, individual encoding and      *)
(* decoding, the genetic search of optimize_clf) and the concrete          *)
(* optimizers' default tables and classifier factories.                    *)
(*                                                                         *)
(* Representation.                                                         *)
(*  - A Python dict is an ordered mapping: a sequence of                   *)
(*    [key, param] entries in insertion order.                             *)
(*  - A Python number (int or float) is an exact rational                  *)
(*    [kind |-> "num", num, den] in lowest terms with den > 0; None and a  *)
(*    raised ZeroDivisionError are values of other kinds.  Floating-point  *)
(*    rounding is not modelled.                                            *)
(*  - The type objects int and float are the strings "int" and "float".    *)
(*  - A fitness is the mean accuracy only: creator.FitnessMax has the      *)
(*    single weight 1.0 and the toolkit multiplies values and weights      *)
(*    pairwise, so the standard deviation returned by evaluate_clf never   *)
(*    takes part in a comparison.  Accuracies are small integers, an       *)
(*    order-preserving scale of [0, 1].                                    *)
(***************************************************************************)
EXTENDS Integers, Sequences, FiniteSets, TLC

VARIABLES
    cls,            \* the concrete optimizer class (type(self).__name__)
    custom_params,  \* self.custom_params: key -> Param
    params,         \* self.params: the resolved table (ordered mapping)
    accuracy,       \* the data set (features, labels), as the mean accuracy
                    \* KFoldStratifiedAccuracy gives each classifier on it
    population,     \* optimize_clf's argument population
    generations,    \* optimize_clf's argument generations
    pc,             \* where the call is
    pop,            \* eaSimple's population
    offspring,      \* eaSimple's offspring of the generation under way
    hof,            \* tools.HallOfFame(10): its items, best first
    gen,            \* generations completed
    clf,            \* the classifier optimize_clf returned
    error,          \* the exception that ended the call and the callee that
                    \* raised it
    evaluated,      \* history: every individual evaluate_clf has scored
    fn,             \* function-level calls: which function is applied
    arg,            \* its argument
    ret             \* its result

vars == <<cls, custom_params, params, accuracy, population, generations, pc,
          pop, offspring, hof, gen, clf, error, evaluated, fn, arg, ret>>

-----------------------------------------------------------------------------
(* Bounds of the model *)

\* largest population size handed to optimize_clf in the general runs
MaxPopulation == 2

\* largest generation count handed to optimize_clf in the general runs
MaxGenerations == 2

\* accuracies range over 0..MaxScore
MaxScore == 1

\* generation count of the long single-individual runs that fill the
\* Hall of Fame
HofGenerations == 10

\* raw gene values handed to Param.correct range over 0..MaxRaw
\* together with the documented examples
MaxRaw == 4

-----------------------------------------------------------------------------
(* Numbers *)

RECURSIVE GCD(_, _)
GCD(a, b) == IF b = 0 THEN a ELSE GCD(b, a % b)

Abs(n) == IF n < 0 THEN -n ELSE n

RECURSIVE Pow10(_)
Pow10(n) == IF n = 0 THEN 1 ELSE 10 * Pow10(n - 1)

\* the rational n/d (d # 0) in lowest terms with a positive denominator
Rat(n, d) ==
    LET g == GCD(Abs(n), Abs(d))
        s == IF d < 0 THEN -1 ELSE 1
    IN  [kind |-> "num", num |-> s * (n \div g), den |-> s * (d \div g)]

\* a Python int
PyInt(n) == [kind |-> "num", num |-> n, den |-> 1]

None == [kind |-> "None", num |-> 0, den |-> 0]

ZeroDivisionError == [kind |-> "ZeroDivisionError", num |-> 0, den |-> 0]

-----------------------------------------------------------------------------
(* Param *)

\* Param.__init__ with the default denominator
Param(name, min_value, max_value, param_type) ==
    [name |-> name, minValue |-> min_value, maxValue |-> max_value,
     type |-> param_type, denominator |-> 100]

\* Param.__init__ with a denominator
ParamD(name, min_value, max_value, param_type, denominator) ==
    [name |-> name, minValue |-> min_value, maxValue |-> max_value,
     type |-> param_type, denominator |-> denominator]

\* Param.correct with the float branch multiplying instead of dividing
correct_mul(self, value) ==
    IF self.type = "int" THEN PyInt(value)
    ELSE IF self.type = "float" THEN PyInt(value * self.denominator)
    ELSE IF self.type = "nexp"
         THEN (IF value >= 0 THEN Rat(1, Pow10(value)) ELSE PyInt(Pow10(-value)))
    ELSE IF self.type = "x10" THEN PyInt(value * 10)
    ELSE None

\* Param.correct
correct(self, value) ==
    IF self.type = "int" THEN PyInt(value)
    ELSE IF self.type = "float"
         THEN (IF self.denominator = 0 THEN ZeroDivisionError
               ELSE Rat(value, self.denominator))
    ELSE IF self.type = "nexp"
         THEN (IF value >= 0 THEN Rat(1, Pow10(value)) ELSE PyInt(Pow10(-value)))
    ELSE IF self.type = "x10" THEN PyInt(value * 10)
    ELSE None

-----------------------------------------------------------------------------
(* Ordered mappings *)

Entry(k, p) == [key |-> k, param |-> p]

\* list(table.keys())
Keys(table) == [i \in DOMAIN table |-> table[i].key]

KeySet(table) == {table[i].key : i \in DOMAIN table}

\* the position of key k in the table
IndexOf(table, k) == CHOOSE i \in DOMAIN table : table[i].key = k

\* table[k]
Lookup(table, k) == table[IndexOf(table, k)].param

-----------------------------------------------------------------------------
(* The default tables *)

TreeDefaults ==
    << Entry("min_samples_split", Param("min_samples_split", 2, 50, "int")),
       Entry("min_samples_leaf", Param("min_samples_leaf", 1, 20, "int")),
       Entry("max_depth", Param("max_depth", 2, 50, "int")),
       Entry("min_impurity_decrease",
             ParamD("min_impurity_decrease", 0, 150, "float", 1000)),
       Entry("ccp_alpha", ParamD("ccp_alpha", 0, 300, "float", 100000)) >>

ForestDefaults ==
    << Entry("max_features", ParamD("max_features", 75, 90, "float", 100)),
       Entry("n_estimators", Param("n_estimators", 50, 250, "int")),
       Entry("max_depth", Param("max_depth", 3, 40, "int")),
       Entry("max_samples", ParamD("max_samples", 20, 50, "float", 100)) >>

XGBDefaults ==
    << Entry("colsample_bytree", ParamD("colsample_bytree", 3, 10, "float", 10)),
       Entry("gamma", Param("gamma", 0, 20, "int")),
       Entry("learning_rate", ParamD("learning_rate", 1, 100, "float", 1000)),
       Entry("max_depth", Param("max_depth", 3, 30, "int")),
       Entry("n_estimators", Param("n_estimators", 100, 500, "int")),
       Entry("subsample", ParamD("subsample", 700, 1000, "float", 1000)),
       Entry("scale_pos_weight",
             ParamD("scale_pos_weight", 15, 40, "float", 100)) >>

SVCDefaults ==
    << Entry("C", ParamD("C", 1, 10000, "float", 10)),
       Entry("degree", Param("degree", 0, 6, "int")),
       Entry("gamma", ParamD("gamma", 10, 100000000, "float", 100)) >>

MLPDefaults ==
    << Entry("learning_rate_init", Param("lr", 1, 6, "nexp")),
       Entry("alpha", Param("alpha", 1, 6, "nexp")),
       Entry("layer1", Param("layer1", 5, 30, "x10")),
       Entry("layer2", Param("layer1", 1, 20, "x10")),
       Entry("layer3", Param("layer1", 1, 10, "x10")) >>

Classes ==
    {"TreeOptimizer", "ForestOptimizer", "ExtraTreesOptimizer",
     "GradientBoostingOptimizer", "XGBClassifierOptimizer", "SVCOptimizer",
     "MLPOptimizer"}

\* get_default_params as the class resolves it (ExtraTrees and
\* GradientBoosting inherit ForestOptimizer's)
get_default_params(c) ==
    CASE c = "TreeOptimizer" -> TreeDefaults
      [] c \in {"ForestOptimizer", "ExtraTreesOptimizer",
                "GradientBoostingOptimizer"} -> ForestDefaults
      [] c = "XGBClassifierOptimizer" -> XGBDefaults
      [] c = "SVCOptimizer" -> SVCDefaults
      [] c = "MLPOptimizer" -> MLPDefaults

\* BaseOptimizer.get_params taking the custom descriptor for every key
\* custom_params holds, default key or not
BaseOptimizer_get_params_all(c, custom) ==
    LET default_params == get_default_params(c)
        extra == {k \in DOMAIN custom : k \notin KeySet(default_params)}
        RECURSIVE Rest(_)
        Rest(S) == IF S = {} THEN << >>
                   ELSE LET k == CHOOSE x \in S : TRUE
                        IN  <<Entry(k, custom[k])>> \o Rest(S \ {k})
    IN  [i \in DOMAIN default_params |->
            IF default_params[i].key \in DOMAIN custom
            THEN Entry(default_params[i].key, custom[default_params[i].key])
            ELSE default_params[i]] \o Rest(extra)

\* BaseOptimizer.get_params: one entry per default key, in the default
\* table's order
BaseOptimizer_get_params(c, custom) ==
    LET default_params == get_default_params(c)
    IN  [i \in DOMAIN default_params |->
            IF default_params[i].key \in DOMAIN custom
            THEN Entry(default_params[i].key, custom[default_params[i].key])
            ELSE default_params[i]]

\* a call's outcome: the value returned, or the exception raised
Returned(v) == [raised |-> "", value |-> v]

Raised(e) == [raised |-> e, value |-> << >>]

\* GradientBoostingOptimizer.get_params: params is the dict the base class
\* built, and a dict has no append
GradientBoostingOptimizer_get_params(c, custom) ==
    LET p == BaseOptimizer_get_params(c, custom)
    IN  Raised("AttributeError")

\* self.get_params() as the class resolves it
get_params(c, custom) ==
    IF c = "GradientBoostingOptimizer"
    THEN GradientBoostingOptimizer_get_params(c, custom)
    ELSE Returned(BaseOptimizer_get_params(c, custom))

-----------------------------------------------------------------------------
(* Individuals and classifiers *)

\* BaseOptimizer.individual2dict pairing each key with the gene one place on
individual2dict_shifted(table, individual) ==
    [k \in KeySet(table) |->
        individual[(IndexOf(table, k) % Len(table)) + 1]]

\* BaseOptimizer.individual2dict (individual no shorter than the table)
individual2dict(table, individual) ==
    [k \in KeySet(table) |-> individual[IndexOf(table, k)]]

\* ExtraTreesOptimizer.get_clf reading only the keys of the table it
\* inherits from ForestOptimizer
RequiredKeys_inherited(c) ==
    CASE c = "TreeOptimizer" ->
            {"max_depth", "min_samples_split", "min_samples_leaf",
             "min_impurity_decrease", "ccp_alpha"}
      [] c \in {"ForestOptimizer", "ExtraTreesOptimizer"} ->
            {"n_estimators", "max_depth", "max_samples", "max_features"}
      [] c = "GradientBoostingOptimizer" ->
            {"n_estimators", "max_depth", "min_samples_split",
             "min_samples_leaf", "max_features", "learning_rate", "subsample"}
      [] c = "XGBClassifierOptimizer" ->
            {"colsample_bytree", "gamma", "learning_rate", "max_depth",
             "n_estimators", "scale_pos_weight", "subsample"}
      [] c = "SVCOptimizer" -> {"C", "degree", "gamma"}
      [] c = "MLPOptimizer" ->
            {"layer1", "layer2", "layer3", "learning_rate_init", "alpha"}

\* the keys each class's get_clf reads from individual_dict
RequiredKeys(c) ==
    CASE c = "TreeOptimizer" ->
            {"max_depth", "min_samples_split", "min_samples_leaf",
             "min_impurity_decrease", "ccp_alpha"}
      [] c = "ForestOptimizer" ->
            {"n_estimators", "max_depth", "max_samples", "max_features"}
      [] c = "ExtraTreesOptimizer" ->
            {"n_estimators", "max_depth", "min_samples_split",
             "min_samples_leaf", "max_features"}
      [] c = "GradientBoostingOptimizer" ->
            {"n_estimators", "max_depth", "min_samples_split",
             "min_samples_leaf", "max_features", "learning_rate", "subsample"}
      [] c = "XGBClassifierOptimizer" ->
            {"colsample_bytree", "gamma", "learning_rate", "max_depth",
             "n_estimators", "scale_pos_weight", "subsample"}
      [] c = "SVCOptimizer" -> {"C", "degree", "gamma"}
      [] c = "MLPOptimizer" ->
            {"layer1", "layer2", "layer3", "learning_rate_init", "alpha"}

\* the estimator each class's get_clf constructs
Estimator(c) ==
    CASE c = "TreeOptimizer" -> "DecisionTreeClassifier"
      [] c = "ForestOptimizer" -> "RandomForestClassifier"
      [] c = "ExtraTreesOptimizer" -> "ExtraTreesClassifier"
      [] c = "GradientBoostingOptimizer" -> "GradientBoostingClassifier"
      [] c = "XGBClassifierOptimizer" -> "XGBClassifier"
      [] c = "SVCOptimizer" -> "SVC"
      [] c = "MLPOptimizer" -> "MLPClassifier"

\* get_clf: the unfitted estimator with the hyperparameters read from
\* individual_dict (the constructor arguments the source fixes, such as
\* criterion or class_weight, are the same in every instance and left out);
\* a key the table lacks raises KeyError
get_clf(c, table, individual) ==
    LET individual_dict == individual2dict(table, individual)
    IN  IF RequiredKeys(c) \subseteq DOMAIN individual_dict
        THEN Returned([estimator |-> Estimator(c),
                       kwargs |-> [k \in RequiredKeys(c) |-> individual_dict[k]]])
        ELSE Raised("KeyError")

\* the genes as the Python ints they are
AsNumbers(genes) == [i \in DOMAIN genes |-> PyInt(genes[i])]

\* get_corrected_clf: a copy of the individual with each gene decoded by its
\* parameter's correct(), handed to get_clf
get_corrected_clf(c, table, individual_in) ==
    LET individual == [i \in DOMAIN individual_in |->
                          correct(table[i].param, individual_in[i])]
    IN  IF \E i \in DOMAIN individual : individual[i] = ZeroDivisionError
        THEN Raised("ZeroDivisionError")
        ELSE get_clf(c, table, individual)

\* KFoldStratifiedAccuracy(features, labels, clf, random_state=1): the mean
\* accuracy of clf on the data set; the same classifier and seed give the
\* same score
KFoldStratifiedAccuracy(data, classifier) == data[classifier]

\* evaluate_clf: the fitness of an individual, or the exception raised
evaluate_clf(c, table, data, individual) ==
    LET built == get_corrected_clf(c, table, individual)
    IN  IF built.raised # "" THEN built
        ELSE Returned(KFoldStratifiedAccuracy(data, built.value))

-----------------------------------------------------------------------------
(* The genetic search: individuals, operators and the Hall of Fame *)

\* creator.Individual: a list of genes carrying a fitness (valid once
\* evaluated)
Individual(genes) == [genes |-> genes, valid |-> FALSE, fitness |-> 0]

\* ind.fitness.values = fit
WithFitness(ind, fit) == [genes |-> ind.genes, valid |-> TRUE, fitness |-> fit]

\* del ind.fitness.values
Invalidated(genes) == Individual(genes)

\* the lists g with g[i] in ranges[i] for every i <= n
RECURSIVE SeqProduct(_, _)
SeqProduct(ranges, n) ==
    IF n = 0 THEN {<< >>}
    ELSE {Append(g, v) : g \in SeqProduct(ranges, n - 1), v \in ranges[n]}

\* every list of genes within the table's bounds
GeneSpace(table) ==
    SeqProduct([i \in DOMAIN table |->
                   table[i].param.minValue .. table[i].param.maxValue],
               Len(table))

\* init_individual with randint's upper end one too far
init_individual_over(table) ==
    SeqProduct([i \in DOMAIN table |->
                   table[i].param.minValue .. (table[i].param.maxValue + 1)],
               Len(table))

\* init_individual: the lists it can build, one randint(minValue, maxValue)
\* per key in table order
init_individual(table) ==
    SeqProduct([i \in DOMAIN table |->
                   table[i].param.minValue .. table[i].param.maxValue],
               Len(table))

\* randint raises ValueError on an empty range
init_individual_raises(table) ==
    \E i \in DOMAIN table : table[i].param.minValue > table[i].param.maxValue

\* tools.HallOfFame(10)
HOF_MAXSIZE == 10

\* tools.selTournament's tournsize
TOURNSIZE == 4

\* HallOfFame.insert putting the item last, whatever its fitness
HofInsert_append(h, item) == Append(h, item)

\* HallOfFame.insert: a copy of item goes after the members with a strictly
\* greater fitness (bisect_right on the ascending keys)
HofInsert(h, item) ==
    LET g == Cardinality({j \in DOMAIN h : h[j].fitness > item.fitness})
    IN  SubSeq(h, 1, g) \o <<item>> \o SubSeq(h, g + 1, Len(h))

\* one round of HallOfFame.update's loop, admitting any individual while
\* the hall is full
HofStep_nocap(h, population_, ind) ==
    IF Len(h) = 0 /\ HOF_MAXSIZE # 0
    THEN HofInsert(h, population_[1])
    ELSE IF \E j \in DOMAIN h : h[j].genes = ind.genes
         THEN h
         ELSE HofInsert(h, ind)

\* one round of HallOfFame.update's loop, for individual ind of population_
HofStep(h, population_, ind) ==
    IF Len(h) = 0 /\ HOF_MAXSIZE # 0
    THEN HofInsert(h, population_[1])
    ELSE IF ind.fitness > h[Len(h)].fitness \/ Len(h) < HOF_MAXSIZE
         THEN IF \E j \in DOMAIN h : h[j].genes = ind.genes
              THEN h
              ELSE HofInsert(IF Len(h) >= HOF_MAXSIZE
                             THEN SubSeq(h, 1, Len(h) - 1) ELSE h, ind)
         ELSE h

RECURSIVE HofUpdateFrom(_, _, _)
HofUpdateFrom(h, population_, i) ==
    IF i > Len(population_) THEN h
    ELSE HofUpdateFrom(HofStep(h, population_, population_[i]), population_, i + 1)

\* HallOfFame.update(population)
HofUpdate(h, population_) == HofUpdateFrom(h, population_, 1)

\* the winner of one tournament: the first aspirant of greatest fitness
TournamentWinner(individuals, aspirants) ==
    LET best == CHOOSE j \in DOMAIN aspirants :
                    /\ \A l \in DOMAIN aspirants :
                          individuals[aspirants[l]].fitness
                              <= individuals[aspirants[j]].fitness
                    /\ \A l \in 1 .. (j - 1) :
                          individuals[aspirants[l]].fitness
                              < individuals[aspirants[j]].fitness
    IN  aspirants[best]

\* the places of individuals that can win a tournament of TOURNSIZE random
\* picks (with replacement)
Winners(individuals) ==
    {TournamentWinner(individuals, a) :
        a \in [1 .. TOURNSIZE -> DOMAIN individuals]}

\* tools.selTournament(individuals, k, tournsize=4): every list of k winners
selTournament(individuals, k) ==
    {[i \in 1 .. k |-> individuals[w[i]]] :
        w \in [1 .. k -> Winners(individuals)]}

\* tools.cxTwoPoint's cut points after ordering: 1 <= c1 < c2 <= size
CutPoints(size) ==
    {c \in (1 .. size) \X (1 .. size) : c[1] < c[2]}

\* tools.cxTwoPoint: the genes of the slice [c1:c2] change places
cxTwoPoint(g1, g2, c) ==
    << [i \in DOMAIN g1 |-> IF c[1] < i /\ i <= c[2] THEN g2[i] ELSE g1[i]],
       [i \in DOMAIN g2 |-> IF c[1] < i /\ i <= c[2] THEN g1[i] ELSE g2[i]] >>

\* varAnd's first loop from pair (i - 1, i) on: each pair is mated or left
RECURSIVE MateFrom(_, _)
MateFrom(off, i) ==
    IF i > Len(off) THEN {off}
    ELSE UNION {MateFrom(o, i + 2) :
            o \in {off} \cup
                  {[off EXCEPT ![i - 1] = Invalidated(cxTwoPoint(off[i - 1].genes, off[i].genes, c)[1]),
                               ![i] = Invalidated(cxTwoPoint(off[i - 1].genes, off[i].genes, c)[2])] :
                      c \in CutPoints(Len(off[i].genes))}}

\* tools.mutUniformInt with up one above each maxValue
mutUniformInt_over(table, genes) ==
    SeqProduct([i \in DOMAIN genes |->
                   {genes[i]} \cup
                   (table[i].param.minValue .. (table[i].param.maxValue + 1))],
               Len(genes))

\* tools.mutUniformInt(individual, low, up, indpb=0.35): each gene is kept
\* or drawn anew in its parameter's [minValue, maxValue]
mutUniformInt(table, genes) ==
    SeqProduct([i \in DOMAIN genes |->
                   {genes[i]} \cup
                   (table[i].param.minValue .. table[i].param.maxValue)],
               Len(genes))

\* varAnd's second loop from individual i on: each one is mutated or left
RECURSIVE MutateFrom(_, _, _)
MutateFrom(table, off, i) ==
    IF i > Len(off) THEN {off}
    ELSE UNION {MutateFrom(table, o, i + 1) :
            o \in {off} \cup
                  {[off EXCEPT ![i] = Invalidated(m)] :
                      m \in mutUniformInt(table, off[i].genes)}}

\* get_corrected_clf assigning the decoded values to the list it was given
\* instead of a copy (the numerators stand for the decoded values)
individual_in_after_inplace(table, individual_in) ==
    [i \in DOMAIN individual_in |->
        correct(table[i].param, individual_in[i]).num]

\* the list the caller passed to get_corrected_clf, once it has returned:
\* individual = copy.copy(individual_in) is a new list, and the decoded
\* values are assigned to that copy only
individual_in_after(table, individual_in) == individual_in

\* the evaluation of the individuals with an invalid fitness, in order:
\* the scored list, or the first exception
RECURSIVE EvaluateFrom(_, _, _, _, _)
EvaluateFrom(c, table, data, inds, i) ==
    IF i > Len(inds) THEN Returned(inds)
    ELSE IF inds[i].valid THEN EvaluateFrom(c, table, data, inds, i + 1)
    ELSE LET fit == evaluate_clf(c, table, data, inds[i].genes)
         IN  IF fit.raised # "" THEN fit
             ELSE EvaluateFrom(c, table, data,
                               [inds EXCEPT ![i] =
                                   WithFitness(
                                       [inds[i] EXCEPT !.genes =
                                           individual_in_after(table, @)],
                                       fit.value)],
                               i + 1)

-----------------------------------------------------------------------------
(* optimize_clf *)

NoClf == [estimator |-> "", kwargs |-> << >>]

NoError == [exc |-> "", at |-> ""]

\* the call ends with exception e, raised in callee at
Fail(e, at) ==
    /\ pc' = "failed"
    /\ error' = [exc |-> e, at |-> at]

\* for gen in range(1, ngen + 1), run through the last generation and one
\* more
MoreGenerations_inclusive(g, ngen) == g <= ngen

\* for gen in range(1, ngen + 1): whether a generation follows the g
\* completed ones
MoreGenerations(g, ngen) == g < ngen

\* lines 164-200: the toolbox, the initial population of `population`
\* individuals, the empty Hall of Fame
Start ==
    /\ pc = "ready"
    /\ IF population >= 1 /\ init_individual_raises(params)
       THEN /\ Fail("ValueError", "init_individual")
            /\ UNCHANGED <<pop, hof>>
       ELSE /\ pop' \in [1 .. population ->
                            {Individual(g) : g \in init_individual(params)}]
            /\ hof' = << >>
            /\ pc' = "evaluate0"
            /\ UNCHANGED error
    /\ UNCHANGED <<cls, custom_params, params, accuracy, population,
                   generations, offspring, gen, clf, evaluated, fn, arg, ret>>

\* eaSimple before its loop: the population is evaluated, the Hall of Fame
\* updated and the statistics compiled (np.min of no fitness at all raises
\* ValueError)
EvaluateInitial ==
    /\ pc = "evaluate0"
    /\ \E res \in {EvaluateFrom(cls, params, accuracy, pop, 1)} :
           IF res.raised # ""
           THEN /\ Fail(res.raised, "evaluate_clf")
                /\ UNCHANGED <<pop, hof, evaluated>>
           ELSE IF Len(pop) = 0
           THEN /\ Fail("ValueError", "stats.compile")
                /\ UNCHANGED <<pop, hof, evaluated>>
           ELSE /\ pop' = res.value
                /\ hof' = HofUpdate(hof, res.value)
                /\ evaluated' = evaluated \cup {res.value[i] : i \in DOMAIN pop}
                /\ pc' = IF MoreGenerations(0, generations)
                         THEN "select" ELSE "report"
                /\ UNCHANGED error
    /\ UNCHANGED <<cls, custom_params, params, accuracy, population,
                   generations, offspring, gen, clf, fn, arg, ret>>

\* eaSimple's loop: offspring = toolbox.select(population, len(population))
Select ==
    /\ pc = "select"
    /\ offspring' \in selTournament(pop, Len(pop))
    /\ pc' = "mate"
    /\ UNCHANGED <<cls, custom_params, params, accuracy, population,
                   generations, pop, hof, gen, clf, error, evaluated,
                   fn, arg, ret>>

\* varAnd: the clones are mated pairwise, each pair with probability cxpb
Mate ==
    /\ pc = "mate"
    /\ offspring' \in MateFrom(offspring, 2)
    /\ pc' = "mutate"
    /\ UNCHANGED <<cls, custom_params, params, accuracy, population,
                   generations, pop, hof, gen, clf, error, evaluated,
                   fn, arg, ret>>

\* varAnd: each offspring is mutated with probability mutpb
Mutate ==
    /\ pc = "mutate"
    /\ offspring' \in MutateFrom(params, offspring, 1)
    /\ pc' = "evaluate"
    /\ UNCHANGED <<cls, custom_params, params, accuracy, population,
                   generations, pop, hof, gen, clf, error, evaluated,
                   fn, arg, ret>>

\* eaSimple's loop: the offspring with an invalid fitness are evaluated, the
\* Hall of Fame is updated with the offspring, and they replace the
\* population
Evaluate ==
    /\ pc = "evaluate"
    /\ \E res \in {EvaluateFrom(cls, params, accuracy, offspring, 1)} :
           IF res.raised # ""
           THEN /\ Fail(res.raised, "evaluate_clf")
                /\ UNCHANGED <<pop, offspring, hof, gen, evaluated>>
           ELSE /\ offspring' = res.value
                /\ hof' = HofUpdate(hof, res.value)
                /\ pop' = res.value
                /\ evaluated' = evaluated \cup
                       {res.value[i] : i \in {j \in DOMAIN offspring :
                                                 ~offspring[j].valid}}
                /\ gen' = gen + 1
                /\ pc' = IF MoreGenerations(gen + 1, generations)
                         THEN "select" ELSE "report"
                /\ UNCHANGED error
    /\ UNCHANGED <<cls, custom_params, params, accuracy, population,
                   generations, clf, fn, arg, ret>>

\* lines 205-220: every member of the Hall of Fame is logged with
\* get_clf(hof[i]), and get_clf(hof[0]) is returned
ReturnedClf(c, table, h) == get_clf(c, table, AsNumbers(h[1].genes))

Return ==
    /\ pc = "report"
    /\ \E res \in {ReturnedClf(cls, params, hof)} :
           IF res.raised # ""
           THEN /\ Fail(res.raised, "get_clf")
                /\ UNCHANGED clf
           ELSE /\ clf' = res.value
                /\ pc' = "done"
                /\ UNCHANGED error
    /\ UNCHANGED <<cls, custom_params, params, accuracy, population,
                   generations, pop, offspring, hof, gen, evaluated,
                   fn, arg, ret>>

Next == Start \/ EvaluateInitial \/ Select \/ Mate \/ Mutate \/ Evaluate \/ Return

-----------------------------------------------------------------------------
(* The optimizers and calls explored *)

\* every classifier evaluate_clf can build over the table
ClfSpace(c, table) ==
    {get_corrected_clf(c, table, g).value :
        g \in {x \in GeneSpace(table) : get_corrected_clf(c, table, x).raised = ""}}

\* a data set on which every classifier has an accuracy of its own
RECURSIVE Ranked(_)
Ranked(S) ==
    IF S = {} THEN << >>
    ELSE LET x == CHOOSE y \in S : TRUE
         IN  (x :> Cardinality(S)) @@ Ranked(S \ {x})

\* custom_params narrowing every SVC range: C in 0.1..0.2, degree in 0..1,
\* gamma fixed
SmallSVC ==
    ("C" :> ParamD("C", 1, 2, "float", 10))
    @@ ("degree" :> Param("degree", 0, 1, "int"))
    @@ ("gamma" :> ParamD("gamma", 10, 10, "float", 100))

\* custom_params giving C eleven values and fixing the rest
WideSVC ==
    ("C" :> ParamD("C", 1, 11, "float", 10))
    @@ ("degree" :> Param("degree", 3, 3, "int"))
    @@ ("gamma" :> ParamD("gamma", 10, 10, "float", 100))

\* custom_params with an empty range for C
EmptySVC ==
    ("C" :> ParamD("C", 2, 1, "float", 10))
    @@ ("degree" :> Param("degree", 0, 1, "int"))
    @@ ("gamma" :> ParamD("gamma", 10, 10, "float", 100))

\* custom_params narrowing every forest range
SmallForest ==
    ("max_features" :> ParamD("max_features", 75, 76, "float", 100))
    @@ ("n_estimators" :> Param("n_estimators", 50, 50, "int"))
    @@ ("max_depth" :> Param("max_depth", 3, 4, "int"))
    @@ ("max_samples" :> ParamD("max_samples", 20, 20, "float", 100))

\* custom_params narrowing every MLP range: two learning rates, two widths
\* of the third layer, the rest fixed
SmallMLP ==
    ("learning_rate_init" :> Param("lr", 1, 2, "nexp"))
    @@ ("alpha" :> Param("alpha", 1, 1, "nexp"))
    @@ ("layer1" :> Param("layer1", 5, 5, "x10"))
    @@ ("layer2" :> Param("layer1", 1, 1, "x10"))
    @@ ("layer3" :> Param("layer1", 1, 2, "x10"))

\* the state after construction (BaseOptimizer.__init__) of optimizer c with
\* custom_params custom, about to run optimize_clf(n, g) on data set data
Constructed(c, custom, data, n, g) ==
    /\ cls = c
    /\ custom_params = custom
    /\ params = get_params(c, custom).value
    /\ accuracy = data
    /\ population = n
    /\ generations = g
    /\ pc = "ready"
    /\ pop = << >>
    /\ offspring = << >>
    /\ hof = << >>
    /\ gen = 0
    /\ clf = NoClf
    /\ error = NoError
    /\ evaluated = {}
    /\ fn = "optimize_clf"
    /\ arg = << >>
    /\ ret = << >>

Init ==
    \/ \E data \in [ClfSpace("SVCOptimizer",
                             get_params("SVCOptimizer", SmallSVC).value)
                        -> 0 .. MaxScore],
          n \in 0 .. MaxPopulation, g \in 0 .. MaxGenerations :
            Constructed("SVCOptimizer", SmallSVC, data, n, g)
    \/ \E data \in [ClfSpace("MLPOptimizer",
                             get_params("MLPOptimizer", SmallMLP).value)
                        -> 0 .. MaxScore],
          n \in 1 .. MaxPopulation, g \in 0 .. MaxGenerations :
            Constructed("MLPOptimizer", SmallMLP, data, n, g)
    \/ \E n \in 1 .. MaxPopulation :
            Constructed("SVCOptimizer", EmptySVC, << >>, n, 1)
    \/ \E n \in 1 .. MaxPopulation :
            Constructed("ExtraTreesOptimizer", SmallForest, << >>, n, 1)

Spec == Init /\ [][Next]_vars

\* long runs of a single individual over eleven classifiers
InitHof ==
    Constructed("SVCOptimizer", WideSVC,
                Ranked(ClfSpace("SVCOptimizer",
                                get_params("SVCOptimizer", WideSVC).value)),
                1, HofGenerations)

SpecHof == InitHof /\ [][Next]_vars

-----------------------------------------------------------------------------
(* Function-level calls: Param.correct, individual2dict and the constructor *)
(* on inputs the searches above do not reach                                *)

\* BaseOptimizer.__init__: self.params = self.get_params()
Construct ==
    /\ pc = "new"
    /\ \E res \in {get_params(cls, custom_params)} :
           IF res.raised # ""
           THEN /\ Fail(res.raised, "get_params")
                /\ UNCHANGED params
           ELSE /\ params' = res.value
                /\ pc' = "ready"
                /\ UNCHANGED error
    /\ UNCHANGED <<cls, custom_params, accuracy, population, generations,
                   pop, offspring, hof, gen, clf, evaluated, fn, arg, ret>>

\* a call of Param.correct(value)
Call_correct ==
    /\ pc = "call"
    /\ fn = "correct"
    /\ ret' = correct(arg.self, arg.value)
    /\ pc' = "returned"
    /\ UNCHANGED <<cls, custom_params, params, accuracy, population,
                   generations, pop, offspring, hof, gen, clf, error,
                   evaluated, fn, arg>>

\* a call of individual2dict(individual) on an optimizer with table
\* arg.table
Call_individual2dict ==
    /\ pc = "call"
    /\ fn = "individual2dict"
    /\ ret' = individual2dict(arg.table, arg.individual)
    /\ pc' = "returned"
    /\ UNCHANGED <<cls, custom_params, params, accuracy, population,
                   generations, pop, offspring, hof, gen, clf, error,
                   evaluated, fn, arg>>

NextPure == Construct \/ Call_correct \/ Call_individual2dict

\* the descriptor types: the four Param.correct knows and one it does not
ParamTypes == {"int", "float", "nexp", "x10", "str"}

\* denominators of the descriptors handed to Param.correct
Denominators == {0, 10, 100, 1000}

\* raw values handed to Param.correct
RawValues == (0 .. MaxRaw) \cup {20, 150}

\* maxValue of the descriptors handed to Param.correct (a negative-exponent
\* gene stays small: 10^value has to be representable)
MaxValueOf(t) == IF t = "nexp" THEN MaxRaw ELSE 150

\* a descriptor custom_params can hold for key k
Override(k) == ParamD(k, 1, 2, "int", 1)

\* keys custom_params may hold for class c: default keys and others
CustomKeys(c) ==
    {get_default_params(c)[1].key, get_default_params(c)[2].key,
     "min_samples_split", "min_samples_leaf", "learning_rate"}

\* genes of the individuals handed to individual2dict
DictGenes == 0 .. 1

\* the state before a function-level call f with argument a, or before the
\* construction of optimizer c with custom_params custom
Calling(f, a, c, custom) ==
    /\ cls = c
    /\ custom_params = custom
    /\ params = << >>
    /\ accuracy = << >>
    /\ population = 0
    /\ generations = 0
    /\ pc = IF f = "__init__" THEN "new" ELSE "call"
    /\ pop = << >>
    /\ offspring = << >>
    /\ hof = << >>
    /\ gen = 0
    /\ clf = NoClf
    /\ error = NoError
    /\ evaluated = {}
    /\ fn = f
    /\ arg = a
    /\ ret = << >>

InitPure ==
    \/ \E t \in ParamTypes, d \in Denominators :
          \E v \in RawValues \cap (0 .. MaxValueOf(t)) :
             Calling("correct",
                     [self |-> ParamD("p", 0, MaxValueOf(t), t, d), value |-> v],
                     "", << >>)
    \/ \E c \in Classes \ {"GradientBoostingOptimizer"} :
          \E g \in [DOMAIN get_default_params(c) -> DictGenes] :
             Calling("individual2dict",
                     [table |-> get_params(c, << >>).value, individual |-> g],
                     "", << >>)
    \/ \E c \in Classes :
          \E S \in SUBSET CustomKeys(c) :
             Calling("__init__", << >>, c, [k \in S |-> Override(k)])

SpecPure == InitPure /\ [][NextPure]_vars

-----------------------------------------------------------------------------
(* Properties *)

\* every parameter of the table has a non-empty range
WellFormed(table) ==
    \A i \in DOMAIN table : table[i].param.minValue <= table[i].param.maxValue

\* every individual the search holds: population, offspring, Hall of Fame
Held == {pop[i] : i \in DOMAIN pop}
        \cup {offspring[i] : i \in DOMAIN offspring}
        \cup {hof[i] : i \in DOMAIN hof}

\* C1: when optimize_clf returns, the classifier returned has the
\* hyperparameter values of the configuration that was evaluated for the
\* best Hall-of-Fame member, that is the classifier evaluate_clf built from
\* its genes decoded by correct().
C1_ReturnsEvaluatedBest ==
    pc = "done" =>
        clf = get_corrected_clf(cls, params, hof[1].genes).value

\* the steps a call still has to take: a bound that every step lowers
Remaining ==
    CASE pc = "ready" -> 4 * generations + 3
      [] pc = "evaluate0" -> 4 * generations + 2
      [] pc = "select" -> 4 * (generations - gen) + 1
      [] pc = "mate" -> 4 * (generations - gen)
      [] pc = "mutate" -> 4 * (generations - gen) - 1
      [] pc = "evaluate" -> 4 * (generations - gen) - 2
      [] pc = "report" -> 1
      [] OTHER -> 0

\* a next step exists: the step of the current place is enabled, which for
\* the steps that draw at random means that there is something to draw
CanStep ==
    CASE pc = "ready" ->
            \/ population >= 1 /\ init_individual_raises(params)
            \/ population = 0
            \/ init_individual(params) # {}
      [] pc = "select" -> selTournament(pop, Len(pop)) # {}
      [] pc = "mate" -> MateFrom(offspring, 2) # {}
      [] pc = "mutate" -> MutateFrom(params, offspring, 1) # {}
      [] pc \in {"evaluate0", "evaluate", "report"} -> TRUE
      [] OTHER -> FALSE

\* a call that returns does so after exactly `generations` generations, with
\* the whole population evaluated and exactly one classifier of the
\* optimizer's estimator type
ReturnsOneClassifier ==
    pc = "done"
       => /\ gen = generations
          /\ clf.estimator = Estimator(cls)
          /\ DOMAIN clf.kwargs = RequiredKeys(cls)
          /\ Len(pop) = population
          /\ \A i \in DOMAIN pop : pop[i].valid

C3_BestNonDecreasing ==
    /\ [](hof # << >> => \A e \in evaluated : hof[1].fitness >= e.fitness)
    /\ [](evaluated # {} /\ pc # "failed" => hof # << >>)
    /\ [][hof # << >> => /\ hof' # << >>
                         /\ hof'[1].fitness >= hof[1].fitness]_vars

\* after a generation the best fitness is above that of another member
C3_Witness ==
    /\ gen >= 1
    /\ Len(hof) >= 2
    /\ hof[1].fitness > hof[Len(hof)].fitness
    /\ \E e \in evaluated : e.fitness < hof[1].fitness

\* C4: the Hall of Fame never holds more than 10 individuals, and never more
\* individuals than have been evaluated.
C4_HofBounded ==
    /\ Len(hof) <= 10
    /\ Len(hof) <= Cardinality(evaluated)

\* more than ten different individuals have been evaluated and the Hall of
\* Fame holds ten
C4_Witness ==
    /\ Cardinality({e.genes : e \in evaluated}) > 10
    /\ Len(hof) = 10

\* C5: the table the constructor resolves has the default table's keys in
\* the default table's order; a key custom_params holds maps to the custom
\* descriptor, every other key to its default descriptor.
C5_ResolvedTable ==
    (fn = "__init__" /\ pc = "ready") =>
        LET default_params == get_default_params(cls)
        IN  /\ Keys(params) = Keys(default_params)
            /\ \A k \in KeySet(default_params) :
                  Lookup(params, k) =
                     IF k \in DOMAIN custom_params THEN custom_params[k]
                     ELSE Lookup(default_params, k)

\* a table resolved from custom_params holding a default key and a key that
\* is no default key
C5_Witness ==
    /\ fn = "__init__"
    /\ pc = "ready"
    /\ \E k \in DOMAIN custom_params : k \in KeySet(params)
    /\ \E k \in DOMAIN custom_params : k \notin KeySet(get_default_params(cls))
    /\ \E k \in KeySet(params) : k \notin DOMAIN custom_params

\* C6: when every parameter range is non-empty, each individual
\* init_individual built for the initial population has one gene per
\* parameter, the i-th within the i-th parameter's [minValue, maxValue].
C6_InitIndividualInBounds ==
    (pc = "evaluate0" /\ WellFormed(params)) =>
        \A j \in DOMAIN pop :
            /\ Len(pop[j].genes) = Len(params)
            /\ \A i \in DOMAIN params :
                  /\ pop[j].genes[i] >= params[i].param.minValue
                  /\ pop[j].genes[i] <= params[i].param.maxValue

\* an initial population of two different individuals
C6_Witness ==
    /\ pc = "evaluate0"
    /\ Len(pop) >= 2
    /\ pop[1].genes # pop[2].genes

\* C7: a parameter whose minValue equals its maxValue has that value at its
\* position in every individual of the population, the offspring and the
\* Hall of Fame, at every step.
C7_DegenerateGeneFixed ==
    \A i \in DOMAIN params :
        params[i].param.minValue = params[i].param.maxValue =>
            \A ind \in Held : ind.genes[i] = params[i].param.minValue

\* an offspring has been mutated in a table with a single-valued parameter
C7_Witness ==
    /\ pc = "evaluate"
    /\ \E i \in DOMAIN params :
          params[i].param.minValue = params[i].param.maxValue
    /\ \E j \in DOMAIN offspring :
          ~offspring[j].valid /\ offspring[j].genes # pop[j].genes

\* C8: constructing a Gradient Boosting optimizer succeeds and resolves the
\* Random Forest table (with the custom overrides) followed by
\* learning_rate (float, 1..10000, denominator 1000000) and subsample
\* (float, 0..100, denominator 100).
C8_GradientBoostingTable ==
    (fn = "__init__" /\ cls = "GradientBoostingOptimizer" /\ pc # "new") =>
        /\ pc = "ready"
        /\ params =
              BaseOptimizer_get_params("ForestOptimizer", custom_params)
              \o << Entry("learning_rate",
                          ParamD("learning_rate", 1, 10000, "float", 1000000)),
                    Entry("subsample",
                          ParamD("subsample", 0, 100, "float", 100)) >>

\* C9: Param.correct returns the value itself for int, value/denominator for
\* float, 10^(-value) for "nexp", value*10 for "x10" and None for any other
\* type; float with denominator 1000 maps 150 to 0.15, nexp maps 3 to 0.001
\* and x10 maps 20 to 200.
C9_CorrectDecodes ==
    (fn = "correct" /\ pc = "returned") =>
        LET t == arg.self.type
            d == arg.self.denominator
            v == arg.value
        IN  /\ t = "int" => ret = [kind |-> "num", num |-> v, den |-> 1]
            /\ (t = "float" /\ d # 0) =>
                  /\ ret.kind = "num"
                  /\ ret.den > 0
                  /\ ret.num * d = v * ret.den
            /\ t = "nexp" =>
                  /\ ret.kind = "num"
                  /\ ret.den > 0
                  /\ ret.num * Pow10(v) = ret.den
            /\ t = "x10" => ret = [kind |-> "num", num |-> 10 * v, den |-> 1]
            /\ t \notin {"int", "float", "nexp", "x10"} => ret = None
            /\ (t = "float" /\ d = 1000 /\ v = 150) =>
                  ret.num * 100 = 15 * ret.den
            /\ (t = "nexp" /\ v = 3) => ret.num * 1000 = ret.den
            /\ (t = "x10" /\ v = 20) => ret.num = 200 /\ ret.den = 1

\* correct has decoded 150 with a float descriptor of denominator 1000
C9_Witness ==
    /\ fn = "correct"
    /\ pc = "returned"
    /\ arg.self.type = "float"
    /\ arg.self.denominator = 1000
    /\ arg.value = 150
    /\ ret.kind = "num"

\* C10: individual2dict maps the i-th key of the table to the i-th gene
\* unchanged, so the dictionary read in the table's key order is the
\* individual again.
C10_DictRoundTrip ==
    (fn = "individual2dict" /\ pc = "returned") =>
        /\ DOMAIN ret = KeySet(arg.table)
        /\ [i \in DOMAIN arg.table |-> ret[Keys(arg.table)[i]]] = arg.individual

\* individual2dict has returned for an individual whose genes differ
C10_Witness ==
    /\ fn = "individual2dict"
    /\ pc = "returned"
    /\ arg.individual[1] # arg.individual[2]
    /\ Len(arg.individual) = Len(arg.table)

\* the genes of the individuals of a list, in order
GenesOf(inds) == [j \in DOMAIN inds |-> inds[j].genes]

\* an individual of one raw gene per parameter, each within its range
RawInRange(ind) ==
    /\ Len(ind.genes) = Len(params)
    /\ \A i \in DOMAIN params :
          /\ ind.genes[i] \in Int
          /\ ind.genes[i] >= params[i].param.minValue
          /\ ind.genes[i] <= params[i].param.maxValue

\* C11: once the initial population is built, and after every selection,
\* crossover, mutation and evaluation step, the population has the
\* requested size (and so have the offspring being bred), every individual
\* of the population, the offspring and the Hall of Fame has one raw
\* integer gene per parameter within that parameter's [minValue, maxValue],
\* and an evaluation step leaves the genes of the individuals it evaluates
\* as they were.
C11_PopulationWellFormed ==
    /\ [](pc \in {"evaluate0", "select", "mate", "mutate", "evaluate",
                  "report", "done"} => Len(pop) = population)
    /\ [](pc \in {"mate", "mutate", "evaluate"} =>
              Len(offspring) = population)
    /\ [](\A ind \in Held : RawInRange(ind))
    /\ [][(pc = "evaluate0" /\ pc' # "failed") =>
              GenesOf(pop') = GenesOf(pop)]_vars
    /\ [][(pc = "evaluate" /\ pc' # "failed") =>
              /\ GenesOf(offspring') = GenesOf(offspring)
              /\ GenesOf(pop') = GenesOf(offspring)]_vars

\* a second generation has been evaluated after crossover and mutation
\* changed an offspring, in a table with float and exponent parameters
C11_Witness ==
    /\ gen = 2
    /\ pc = "report"
    /\ Len(pop) = 2
    /\ Len(hof) >= 2
    /\ pop[1].genes # pop[2].genes
    /\ \E i \in DOMAIN params : params[i].param.type # "int"

\* an Extra-Trees optimizer whose custom_params name neither
\* min_samples_split nor min_samples_leaf
ExtraTreesWithoutSplitParams ==
    /\ cls = "ExtraTreesOptimizer"
    /\ "min_samples_split" \notin DOMAIN custom_params
    /\ "min_samples_leaf" \notin DOMAIN custom_params

\* C12: for an Extra-Trees optimizer whose custom_params supply neither
\* min_samples_split nor min_samples_leaf, the resolved table has neither
\* key and get_clf raises KeyError for every individual, raw or decoded;
\* optimize_clf then fails with that KeyError at the first fitness
\* evaluation, never goes on to breed a generation, never returns a
\* classifier, and no individual ever enters the Hall of Fame.
C12_ExtraTreesAborts ==
    /\ [](ExtraTreesWithoutSplitParams =>
              /\ KeySet(params) \cap {"min_samples_split",
                                      "min_samples_leaf"} = {}
              /\ \A g \in GeneSpace(params) :
                    /\ get_clf(cls, params, AsNumbers(g)).raised = "KeyError"
                    /\ get_corrected_clf(cls, params, g).raised = "KeyError"
                    /\ evaluate_clf(cls, params, accuracy, g).raised
                           = "KeyError"
              /\ pc \in {"ready", "evaluate0", "failed"}
              /\ clf = NoClf
              /\ hof = << >>
              /\ evaluated = {})
    /\ [][(ExtraTreesWithoutSplitParams /\ pc = "evaluate0" /\ pop # << >>)
              => /\ pc' = "failed"
                 /\ error' = [exc |-> "KeyError", at |-> "evaluate_clf"]
                 /\ clf' = NoClf]_vars

\* the call on an Extra-Trees optimizer has failed in the evaluation of an
\* initial population of two
C12_Witness ==
    /\ ExtraTreesWithoutSplitParams
    /\ pc = "failed"
    /\ error = [exc |-> "KeyError", at |-> "evaluate_clf"]
    /\ Len(pop) = 2
    /\ clf = NoClf

====
